---- MODULE Spec2Model ----
(***************************************************************************)
(* Street-network builder of osm_parse.py: the SAX handler of OSM.__init__, *)
(* the node histogram, Way.split and create_streetnetwork, as one state     *)
(* machine that consumes a document event by event and then runs the build  *)
(* stages in the order the code runs them.                                  *)
(*                                                                         *)
(* Documents are OSM-shaped: node elements first, then way elements, then   *)
(* elements of other kinds (relations); identifiers are unique within a     *)
(* document and handed out in a fixed order; tag children appear in ways    *)
(* and in other elements.  A tag value is a string; the value of maxspeed,   *)
(* the one string the code reads character by character, is the sequence    *)
(* of its code points.                                                      *)
(* Coordinates, the haversine length and the feature extraction (bus stops, *)
(* crossings) are left out: no modelled decision reads them.  The           *)
(* networkx.Graph of the code is an undirected simple graph: one data dict  *)
(* per unordered pair of nodes.                                             *)
(***************************************************************************)
EXTENDS Integers, Sequences, FiniteSets, TLC

\* ---------------------------------------------------------------- bounds
MaxRefs == 3        \* nd events in one document
MaxTags == 2        \* tag entries in one document
MaxLen == 4         \* points of the polyline SpecSplit draws
MaxExtra == 1       \* references other polylines make to a point, in SpecSplit
PairLen == 2        \* nd events in one way of the documents of SpecPairs

\* identifiers, in the order the document hands them out
NodeOrder == <<"a", "b", "c">>
WayOrder == <<"1", "2">>
NodeIds == {NodeOrder[i] : i \in 1..Len(NodeOrder)}
WayIds == {WayOrder[i] : i \in 1..Len(WayOrder)}
TagKeys == {"highway", "oneway", "maxspeed"}
TagValues ==
  [highway |-> {"residential", "cycleway", "footway"},
   oneway |-> {"yes", "no"},
   maxspeed |-> {<<32, 51, 48>>,                    \* " 30"
                 <<51, 48, 32, 109, 112, 104>>}]    \* "30 mph"

VARIABLES
  pc,              \* stage: parse, split, build, done, error
  err,             \* the exception that ended the build, "" when none
  only_roads,      \* create_streetnetwork's parameter
  open,            \* the element open below the document root (xml.sax's stack)
  section,         \* the part of the document being read: nodes, ways, others
  heap,            \* the Node and Way objects, in order of allocation
  currElem,        \* OSMHandler.currElem: 0 while the attribute is unset
  nodes,           \* dict id -> Node object (heap index)
  ways,            \* dict id -> Way object: heap indices in insertion order
  node_histogram,  \* dict id -> count
  new_ways,        \* the split ways (osm.ways after __init__), in insertion order
  it,              \* next entry of osm.ways the loop of create_streetnetwork visits
  graph,           \* networkx.Graph: [node, edges]
  regs             \* the occupant registries (cars dicts), in order of allocation

vars == <<pc, err, only_roads, open, section, heap, currElem, nodes, ways,
          node_histogram, new_ways, it, graph, regs>>

\* ------------------------------------------------------------- helpers
EmptyDict == <<>>

\* d[k] = v
DictSet(d, k, v) == [x \in DOMAIN d \cup {k} |-> IF x = k THEN v ELSE d[x]]

RECURSIVE SeqSum(_)
SeqSum(s) == IF s = <<>> THEN 0 ELSE Head(s) + SeqSum(Tail(s))

Reverse(s) == [i \in 1..Len(s) |-> s[Len(s) + 1 - i]]

Range(s) == {s[i] : i \in 1..Len(s)}

SetMin(S) == CHOOSE x \in S : \A y \in S : x <= y

RefCount == SeqSum([i \in 1..Len(heap) |-> Len(heap[i].nds)])
TagCount == SeqSum([i \in 1..Len(heap) |-> Cardinality(DOMAIN heap[i].tags)])

\* Node.__init__ and Way.__init__
Node(node_id) == [kind |-> "node", id |-> node_id, nds |-> <<>>, tags |-> EmptyDict]
Way(way_id) == [kind |-> "way", id |-> way_id, nds |-> <<>>, tags |-> EmptyDict]

WayIdsUsed == {heap[i].id : i \in {j \in 1..Len(heap) : heap[j].kind = "way"}}
NodeIdsUsed == {heap[i].id : i \in {j \in 1..Len(heap) : heap[j].kind = "node"}}

\* networkx.Graph(): node -> attribute dict, {u, v} -> data dict
EmptyGraph == [node |-> EmptyDict, edges |-> EmptyDict]

\* An exception leaves create_streetnetwork: the OSM object, the handler and
\* the graph are dropped and the caller is left with the exception alone.
Raise(exception) ==
  /\ pc' = "error"
  /\ err' = exception
  /\ open' = "none"
  /\ section' = "nodes"
  /\ heap' = <<>>
  /\ currElem' = 0
  /\ nodes' = EmptyDict
  /\ ways' = <<>>
  /\ node_histogram' = EmptyDict
  /\ new_ways' = <<>>
  /\ it' = 1
  /\ graph' = EmptyGraph
  /\ regs' = <<>>
  /\ UNCHANGED only_roads

\* ------------------------------------------------------------- parsing
Init ==
  /\ pc = "parse"
  /\ err = ""
  /\ only_roads \in BOOLEAN
  /\ open = "none"
  /\ section = "nodes"
  /\ heap = <<>>
  /\ currElem = 0
  /\ nodes = EmptyDict
  /\ ways = <<>>
  /\ node_histogram = EmptyDict
  /\ new_ways = <<>>
  /\ it = 1
  /\ graph = EmptyGraph
  /\ regs = <<>>

\* startElement('node')
StartNode(id) ==
  /\ pc = "parse" /\ open = "none"
  /\ section = "nodes"
  /\ Cardinality(NodeIdsUsed) < Len(NodeOrder)
  /\ id = NodeOrder[Cardinality(NodeIdsUsed) + 1]
  /\ heap' = Append(heap, Node(id))
  /\ currElem' = Len(heap) + 1
  /\ open' = "node"
  /\ UNCHANGED <<pc, err, only_roads, section, nodes, ways, node_histogram,
                 new_ways, it, graph, regs>>

\* startElement('way')
StartWay(id) ==
  /\ pc = "parse" /\ open = "none"
  /\ section \in {"nodes", "ways"}
  /\ Cardinality(WayIdsUsed) < Len(WayOrder)
  /\ id = WayOrder[Cardinality(WayIdsUsed) + 1]
  /\ heap' = Append(heap, Way(id))
  /\ currElem' = Len(heap) + 1
  /\ open' = "way"
  /\ section' = "ways"
  /\ UNCHANGED <<pc, err, only_roads, nodes, ways, node_histogram, new_ways,
                 it, graph, regs>>

\* startElement of any other name: no branch of the handler is taken
StartOther ==
  /\ pc = "parse" /\ open = "none"
  /\ open' = "other"
  /\ section' = "others"
  /\ UNCHANGED <<pc, err, only_roads, heap, currElem, nodes, ways,
                 node_histogram, new_ways, it, graph, regs>>

\* startElement('tag'): cls.currElem.tags[attrs['k']] = attrs['v']
Tag(k, v) ==
  /\ pc = "parse" /\ open \in {"way", "other"}
  /\ IF currElem = 0
       THEN Raise("AttributeError: currElem")
       ELSE /\ heap' = [heap EXCEPT ![currElem].tags = DictSet(@, k, v)]
            /\ UNCHANGED <<pc, err, only_roads, open, section, currElem, nodes,
                           ways, node_histogram, new_ways, it, graph, regs>>

\* a tag element of a document of at most MaxTags tag elements
StartTag(k, v) == TagCount < MaxTags /\ Tag(k, v)

\* startElement('nd'): cls.currElem.nds.append(attrs['ref'])
Nd(ref) ==
  /\ pc = "parse" /\ open = "way"
  /\ heap' = [heap EXCEPT ![currElem].nds = Append(@, ref)]
  /\ UNCHANGED <<pc, err, only_roads, open, section, currElem, nodes, ways,
                 node_histogram, new_ways, it, graph, regs>>

\* an nd element of a document of at most MaxRefs nd elements
StartNd(ref) == RefCount < MaxRefs /\ Nd(ref)

\* endElement: nodes[id] = currElem, ways[id] = currElem, nothing otherwise
EndElement ==
  /\ pc = "parse" /\ open # "none"
  /\ open' = "none"
  /\ nodes' = IF open = "node" THEN DictSet(nodes, heap[currElem].id, currElem)
              ELSE nodes
  /\ ways' = IF open = "way" THEN Append(ways, currElem) ELSE ways
  /\ UNCHANGED <<pc, err, only_roads, section, heap, currElem, node_histogram,
                 new_ways, it, graph, regs>>

\* ----------------------------------------------------------- histogram
\* for node in way.nds: node_histogram[node] += 1
RECURSIVE CountRefs(_, _)
CountRefs(nds, h) ==
  IF nds = <<>> THEN [hist |-> h, err |-> ""]
  ELSE IF Head(nds) \notin DOMAIN h
         THEN [hist |-> h, err |-> "KeyError: node_histogram"]
         ELSE CountRefs(Tail(nds), [h EXCEPT ![Head(nds)] = @ + 1])

\* for way in self.ways.values(): the iterator of a dict raises once the dict
\* has another size than when the iterator was made.  order: the entries at
\* that time; w: the entries now.
RECURSIVE CountLoop(_, _, _, _)
CountLoop(order, i, w, h) ==
  IF Len(w) # Len(order)
    THEN [ways |-> w, hist |-> h,
          err |-> "RuntimeError: dictionary changed size during iteration"]
  ELSE IF i > Len(order) THEN [ways |-> w, hist |-> h, err |-> ""]
  ELSE IF Len(heap[order[i]].nds) < 2
    THEN CountLoop(order, i + 1, SelectSeq(w, LAMBDA r : r # order[i]), h)
  ELSE LET r == CountRefs(heap[order[i]].nds, h)
       IN IF r.err # "" THEN [ways |-> w, hist |-> r.hist, err |-> r.err]
          ELSE CountLoop(order, i + 1, w, r.hist)

\* xml.sax.parse returns; the histogram is counted
EndDocument ==
  /\ pc = "parse" /\ open = "none"
  /\ LET r == CountLoop(ways, 1, ways, [n \in DOMAIN nodes |-> 0])
     IN IF r.err # "" THEN Raise(r.err)
        ELSE /\ ways' = r.ways
             /\ node_histogram' = r.hist
             /\ pc' = "split"
             /\ UNCHANGED <<err, only_roads, open, section, heap, currElem,
                            nodes, new_ways, it, graph, regs>>

\* ---------------------------------------------------------------- split
\* slice_array with the right part starting after the divider (ar[iteration + 1:])
RECURSIVE slice_array_skip(_, _)
slice_array_skip(ar, dividers_function2) ==
  LET hits == {i \in 2..(Len(ar) - 1) : dividers_function2[ar[i]] > 1}
  IN IF hits = {} THEN <<ar>>
     ELSE LET iteration == SetMin(hits)
              left == SubSeq(ar, 1, iteration)
              right == SubSeq(ar, iteration + 1, Len(ar))
          IN <<left>> \o slice_array_skip(right, dividers_function2)

\* Way.split.slice_array; range(1, len(ar) - 1) is positions 2..Len(ar)-1 here
RECURSIVE slice_array(_, _)
slice_array(ar, dividers_function2) ==
  LET hits == {i \in 2..(Len(ar) - 1) : dividers_function2[ar[i]] > 1}
  IN IF hits = {} THEN <<ar>>
     ELSE LET iteration == SetMin(hits)
              left == SubSeq(ar, 1, iteration)
              right == SubSeq(ar, iteration, Len(ar))
          IN <<left>> \o slice_array(right, dividers_function2)

\* Way.split: a copy of the way per slice, its id suffixed "-<index>"
split(way, dividers) ==
  LET slices == slice_array(way.nds, dividers)
  IN [i \in 1..Len(slices) |->
        [id |-> way.id \o "-" \o ToString(i - 1),
         nds |-> slices[i], tags |-> way.tags]]

RECURSIVE SplitAll(_)
SplitAll(w) ==
  IF w = <<>> THEN <<>>
  ELSE split(heap[Head(w)], node_histogram) \o SplitAll(Tail(w))

\* for way_id, way in self.ways.items(): ...; self.ways = new_ways
SplitWays ==
  /\ pc = "split"
  /\ new_ways' = SplitAll(ways)
  /\ pc' = "build"
  /\ UNCHANGED <<err, only_roads, open, section, heap, currElem, nodes, ways,
                 node_histogram, it, graph, regs>>

\* ---------------------------------------------------------------- build
\* the highway values create_streetnetwork skips
ExcludedHighway ==
  {"cicleway", "path", "corridor", "steps", "bridleway", "footway",
   "bus_guideway", "raceway", "pedestrian", "service", "sidewalk", "proposed",
   "construction"}

\* ------------------------------------------------------- float and max_v
\* Whole numbers of any size, for the arithmetic of doubles: the limbs of a
\* number in base Base, the lowest first, the highest never zero
Base == 1024
LimbBits == 10

\* a small number's limbs
RECURSIVE Limbs(_)
Limbs(n) == IF n = 0 THEN <<>> ELSE <<n % Base>> \o Limbs(n \div Base)

\* the limbs and the carry of the columns cols[lo..hi], halved and joined
RECURSIVE Carried(_, _, _, _)
Carried(cols, lo, hi, cin) ==
  IF lo > hi THEN [limbs |-> <<>>, carry |-> cin]
  ELSE IF lo = hi
    THEN [limbs |-> <<(cols[lo] + cin) % Base>>,
          carry |-> (cols[lo] + cin) \div Base]
  ELSE LET low == Carried(cols, lo, (lo + hi) \div 2, cin)
           high == Carried(cols, (lo + hi) \div 2 + 1, hi, low.carry)
       IN [limbs |-> low.limbs \o high.limbs, carry |-> high.carry]

\* a without the zeros above its highest limb
High(a) ==
  LET set == {Len(a) + 1 - i : i \in {j \in 1..Len(a) : a[j] # 0}}
  IN IF set = {} THEN <<>> ELSE SubSeq(a, 1, Len(a) + 1 - SetMin(set))

\* the number whose limbs, before carrying, are cols
Normal(cols) ==
  LET r == Carried(cols, 1, Len(cols), 0)
  IN High(r.limbs \o Limbs(r.carry))

At(a, i) == IF i \in 1..Len(a) THEN a[i] ELSE 0

Add(a, b) ==
  Normal([i \in 1..(IF Len(a) > Len(b) THEN Len(a) ELSE Len(b)) |->
            At(a, i) + At(b, i)])

\* a - b for a >= b
Sub(a, b) == Normal([i \in 1..Len(a) |-> a[i] - At(b, i)])

\* the sum of a[i] * b[k + 1 - i] for i in lo..hi
RECURSIVE Column(_, _, _, _, _)
Column(a, b, k, lo, hi) ==
  IF lo > hi THEN 0
  ELSE IF lo = hi THEN a[lo] * b[k + 1 - lo]
  ELSE Column(a, b, k, lo, (lo + hi) \div 2)
         + Column(a, b, k, (lo + hi) \div 2 + 1, hi)

Mul(a, b) ==
  IF a = <<>> \/ b = <<>> THEN <<>>
  ELSE Normal([k \in 1..(Len(a) + Len(b) - 1) |->
                 Column(a, b, k,
                        IF k + 1 - Len(b) > 1 THEN k + 1 - Len(b) ELSE 1,
                        IF k < Len(a) THEN k ELSE Len(a))])

\* a * 2^k
Shl(a, k) ==
  IF a = <<>> THEN <<>>
  ELSE [i \in 1..(k \div LimbBits) |-> 0]
         \o Normal([i \in 1..Len(a) |-> a[i] * 2^(k % LimbBits)])

\* the order of a and b: -1, 0 or 1
Cmp(a, b) ==
  LET differ == {Len(a) + 1 - i : i \in {j \in 1..Len(a) : a[j] # At(b, j)}}
      top == Len(a) + 1 - SetMin(differ)
  IN IF Len(a) < Len(b) THEN -1
     ELSE IF Len(a) > Len(b) THEN 1
     ELSE IF differ = {} THEN 0
     ELSE IF a[top] < b[top] THEN -1
     ELSE 1

\* the number of binary digits of a
BitLen(a) ==
  IF a = <<>> THEN 0
  ELSE (Len(a) - 1) * LimbBits
         + (CHOOSE w \in 1..LimbBits : 2^(w - 1) <= a[Len(a)] /\ a[Len(a)] < 2^w)

\* b^k, by squaring
RECURSIVE Power(_, _)
Power(b, k) ==
  IF k = 0 THEN <<1>>
  ELSE LET half == Power(b, k \div 2)
       IN IF k % 2 = 1 THEN Mul(Mul(half, half), Limbs(b)) ELSE Mul(half, half)

\* the number written by the decimal digits ds[lo..hi]
RECURSIVE FromDigits(_, _, _)
FromDigits(ds, lo, hi) ==
  IF lo > hi THEN <<>>
  ELSE IF lo = hi THEN Limbs(ds[lo])
  ELSE Add(Mul(FromDigits(ds, lo, (lo + hi) \div 2),
               Power(10, hi - (lo + hi) \div 2)),
           FromDigits(ds, (lo + hi) \div 2 + 1, hi))

\* the number written by binary digits, the highest first
FromBits(bits) ==
  High([j \in 1..((Len(bits) + LimbBits - 1) \div LimbBits) |->
          SeqSum([w \in 1..LimbBits |->
                    IF (j - 1) * LimbBits + w <= Len(bits)
                      THEN bits[Len(bits) + 1 - ((j - 1) * LimbBits + w)]
                             * 2^(w - 1)
                      ELSE 0])])

\* Doubles.  Finite(sign, mant, exp) is sign * mant * 2^exp, mant written in
\* binary digits, the highest first: 53 digits and exp in -1074..971 for a
\* normal double, fewer digits and exp = -1074 for a subnormal one, none
\* and exp = 0 for zero
MantBits == 53
MinExp == -1074
MaxExp == 971

Finite(sign, mant, exp) ==
  [kind |-> "finite", sign |-> sign, mant |-> mant, exp |-> exp]
Zero(sign) == Finite(sign, <<>>, 0)
Infinity(sign) == [kind |-> "inf", sign |-> sign, mant |-> <<>>, exp |-> 0]
NaN(sign) == [kind |-> "nan", sign |-> sign, mant |-> <<>>, exp |-> 0]

\* the first n binary digits of r / m for r < 2 * m, the first one counting
\* for 1, and what is left of r after them; found half by half
RECURSIVE QuotientBits(_, _, _)
QuotientBits(r, m, n) ==
  IF n = 0 THEN [bits |-> <<>>, left |-> r]
  ELSE IF n = 1
    THEN IF Cmp(r, m) >= 0 THEN [bits |-> <<1>>, left |-> Shl(Sub(r, m), 1)]
         ELSE [bits |-> <<0>>, left |-> Shl(r, 1)]
  ELSE LET first == QuotientBits(r, m, n \div 2)
           second == QuotientBits(first.left, m, n - n \div 2)
       IN [bits |-> first.bits \o second.bits, left |-> second.left]

\* bits + 1
Increment(bits) ==
  LET zeros == {Len(bits) + 1 - i : i \in {j \in 1..Len(bits) : bits[j] = 0}}
      last == Len(bits) + 1 - SetMin(zeros)
  IN IF zeros = {} THEN <<1>> \o [i \in 1..Len(bits) |-> 0]
     ELSE [i \in 1..Len(bits) |->
             IF i < last THEN bits[i] ELSE IF i = last THEN 1 ELSE 0]

\* the double sign * r * 2^e for the rounded digits r: a carry out of the
\* highest digit drops the last one, and what lies above the largest double
\* is infinite
Packed(sign, r, e) ==
  IF r = <<>> THEN Zero(sign)
  ELSE IF Len(r) > MantBits
    THEN IF e + 1 > MaxExp THEN Infinity(sign)
         ELSE Finite(sign, SubSeq(r, 1, MantBits), e + 1)
  ELSE IF Len(r) = MantBits /\ e > MaxExp THEN Infinity(sign)
  ELSE Finite(sign, r, e)

\* the first keep digits of qb, rounded by the digits after them (more says
\* that the division left a remainder): up when they are above a half, or
\* are a half and the last digit kept is odd
RoundAt(sign, qb, more, e, keep) ==
  LET mant == IF keep > 0 THEN SubSeq(qb, 1, keep) ELSE <<>>
  IN Packed(sign,
            IF /\ keep >= 0 /\ qb[keep + 1] = 1
               /\ \/ more
                  \/ \E j \in 1..Len(qb) : j > keep + 1 /\ qb[j] = 1
                  \/ keep > 0 /\ qb[keep] = 1
              THEN Increment(mant)
              ELSE mant,
            e)

\* the quotient digits qb, the last of them worth 2^x: a double keeps
\* MantBits of them, fewer where its exponent would fall below MinExp
Placed(sign, qb, more, x, e) == RoundAt(sign, qb, more, e, Len(qb) - (e - x))

Quotient(sign, qb, more, x) ==
  Placed(sign, qb, more, x,
         IF x + Len(qb) - MantBits > MinExp THEN x + Len(qb) - MantBits
         ELSE MinExp)

\* the digits of q from its first 1 on
Scaled(sign, q, x) ==
  Quotient(sign, IF q.bits[1] = 0 THEN Tail(q.bits) ELSE q.bits,
           q.left # <<>>, x)

\* n or m is scaled to the other's length (wider is how much longer n is)
\* and two digits more than a mantissa holds are divided out
Wider(sign, n, m, t, wider) ==
  Scaled(sign,
         QuotientBits(IF wider < 0 THEN Shl(n, -wider) ELSE n,
                      IF wider > 0 THEN Shl(m, wider) ELSE m,
                      MantBits + 2),
         t + wider - (MantBits + 1))

\* the double nearest to sign * (n / m) * 2^t for whole numbers n, m > 0,
\* ties to the even mantissa
Nearest(sign, n, m, t) == Wider(sign, n, m, t, BitLen(n) - BitLen(m))

\* a whole number as a double (int to float before a division)
Exact(n) == Nearest(1, Limbs(n), <<1>>, 0)

\* x / y for a double x and a finite double y > 0
Divide(x, y) ==
  IF x.kind # "finite" \/ x.mant = <<>> THEN x
  ELSE Nearest(x.sign, FromBits(x.mant), FromBits(y.mant), x.exp - y.exp)

\* The characters of a string are code points.  float first turns every
\* blank into a space and every decimal digit into its ASCII digit
\* (_PyUnicode_TransformDecimalAndSpaceToASCII); a character from 127 on that
\* is neither becomes "?"
Whitespace ==
  {9, 10, 11, 12, 13, 32, 133, 160, 5760} \cup (8192..8202)
    \cup {8232, 8233, 8239, 8287, 12288}

\* the zero of every run of ten decimal digits (Unicode category Nd)
DecimalZeros ==
  {48, 1632, 1776, 1984, 2406, 2534, 2662, 2790, 2918, 3046, 3174, 3302,
   3430, 3558, 3664, 3792, 3872, 4160, 4240, 6112, 6160, 6470, 6608, 6784,
   6800, 6992, 7088, 7232, 7248, 42528, 43216, 43264, 43472, 43504, 43600,
   44016, 65296, 66720, 68912, 69734, 69872, 69942, 70096, 70384, 70736,
   70864, 71248, 71360, 71472, 71904, 72016, 72784, 73040, 73120, 92768,
   92864, 93008, 120782, 120792, 120802, 120812, 120822, 123200, 123632,
   125264, 130032}

\* the ASCII characters a float literal is written with, besides the digits
Ascii ==
  (43 :> "+") @@ (45 :> "-") @@ (46 :> ".") @@ (95 :> "_")
    @@ (69 :> "E") @@ (101 :> "e")
    @@ (73 :> "I") @@ (105 :> "i") @@ (78 :> "N") @@ (110 :> "n")
    @@ (70 :> "F") @@ (102 :> "f") @@ (84 :> "T") @@ (116 :> "t")
    @@ (89 :> "Y") @@ (121 :> "y") @@ (65 :> "A") @@ (97 :> "a")

Digits == {"0", "1", "2", "3", "4", "5", "6", "7", "8", "9"}
DigitValue(c) == CHOOSE d \in 0..9 : ToString(d) = c

Transform(c) ==
  IF c \in Whitespace THEN " "
  ELSE IF \E z \in DecimalZeros : c - z \in 0..9
    THEN ToString(c - CHOOSE z \in DecimalZeros : c - z \in 0..9)
  ELSE IF c \in DOMAIN Ascii THEN Ascii[c]
  ELSE "?"

\* the positions of cs whose character is not in set
Outside(cs, set) == {i \in 1..Len(cs) : cs[i] \notin set}

\* the same positions, counted from the end of cs
FromEnd(cs, set) == {Len(cs) + 1 - i : i \in Outside(cs, set)}

\* cs from its first to its last character that is not in set
Trim(cs, set, front, end) ==
  IF Outside(cs, set) = {} THEN <<>>
  ELSE SubSeq(cs, IF front THEN SetMin(Outside(cs, set)) ELSE 1,
                  IF end THEN Len(cs) + 1 - SetMin(FromEnd(cs, set))
                  ELSE Len(cs))

Strip(cs) == Trim(cs, {" "}, TRUE, TRUE)

\* float reads "inf", "infinity" and "nan" in any case
Lower(c) ==
  CASE c = "I" -> "i" [] c = "N" -> "n" [] c = "F" -> "f" [] c = "T" -> "t"
    [] c = "Y" -> "y" [] c = "A" -> "a" [] OTHER -> c

\* the first position of cs that holds a character of set, 0 when none does
FirstIn(cs, set) ==
  IF \E i \in 1..Len(cs) : cs[i] \in set
    THEN SetMin({i \in 1..Len(cs) : cs[i] \in set})
    ELSE 0

\* digitpart: digits, with single underscores between digits
DigitPart(ds) ==
  /\ ds # <<>>
  /\ \A i \in 1..Len(ds) : ds[i] \in Digits \cup {"_"}
  /\ ds[1] \in Digits /\ ds[Len(ds)] \in Digits
  /\ \A i \in 1..(Len(ds) - 1) : ~(ds[i] = "_" /\ ds[i + 1] = "_")

DropUnderscores(ds) == SelectSeq(ds, LAMBDA c : c # "_")
DropZeros(ds) == Trim(ds, {"0"}, TRUE, FALSE)
DropEndZeros(ds) == Trim(ds, {"0"}, FALSE, TRUE)

RECURSIVE Decimal(_, _)
Decimal(cs, acc) ==
  IF cs = <<>> THEN acc ELSE Decimal(Tail(cs), 10 * acc + DigitValue(Head(cs)))

\* the exponent float takes for one of more than nine digits
MaxAbsExp == 1100000000

\* the value of an exponent's digits
ExpValue(ds) ==
  LET es == DropZeros(DropUnderscores(ds))
  IN IF Len(es) > 9 THEN MaxAbsExp ELSE Decimal(es, 0)

\* the decimal places of the largest double (below 10^309) and of half the
\* smallest one (above 10^-324)
MaxPlaces == 309
MinPlaces == -323

\* the double nearest to sign * 0.sig * 10^d, for digits sig without zeros
\* at their ends: sig * 5^exp * 2^exp with exp = d - Len(sig)
Rounded(sign, sig, d) ==
  LET exp == d - Len(sig)
      whole == FromDigits([i \in 1..Len(sig) |-> DigitValue(sig[i])],
                          1, Len(sig))
  IN IF sig = <<>> THEN Zero(sign)
     ELSE IF d > MaxPlaces THEN Infinity(sign)
     ELSE IF d < MinPlaces THEN Zero(sign)
     ELSE IF exp >= 0 THEN Nearest(sign, Mul(whole, Power(5, exp)), <<1>>, exp)
     ELSE Nearest(sign, whole, Power(5, -exp), exp)

\* [sign] digitpart [. [digitpart]] [e [sign] digitpart], or . digitpart in
\* place of the first two
Literal(sign, body) ==
  LET epos == FirstIn(body, {"e", "E"})
      mantissa == IF epos = 0 THEN body ELSE SubSeq(body, 1, epos - 1)
      exponent == IF epos = 0 THEN <<>> ELSE SubSeq(body, epos + 1, Len(body))
      esigned == exponent # <<>> /\ exponent[1] \in {"+", "-"}
      esign == IF esigned /\ exponent[1] = "-" THEN -1 ELSE 1
      edigits == IF esigned THEN Tail(exponent) ELSE exponent
      dpos == FirstIn(mantissa, {"."})
      int == IF dpos = 0 THEN mantissa ELSE SubSeq(mantissa, 1, dpos - 1)
      frac == IF dpos = 0 THEN <<>>
              ELSE SubSeq(mantissa, dpos + 1, Len(mantissa))
      wellformed ==
        /\ int = <<>> \/ DigitPart(int)
        /\ frac = <<>> \/ DigitPart(frac)
        /\ int # <<>> \/ frac # <<>>
        /\ epos = 0 \/ DigitPart(edigits)
      digits == DropUnderscores(int) \o DropUnderscores(frac)
      front == DropEndZeros(digits)
      sig == DropZeros(front)
      e == IF epos = 0 THEN 0 ELSE esign * ExpValue(edigits)
  IN IF wellformed
       THEN [ok |-> TRUE,
             value |-> Rounded(sign, sig,
                               e - Len(DropUnderscores(frac))
                                 + (Len(digits) - Len(front)) + Len(sig))]
       ELSE [ok |-> FALSE, value |-> NaN(1)]

\* float(s) for the code points s of a string: the blanks around s are
\* dropped, then a sign may come, then inf, infinity, nan or a decimal
\* literal; anything else raises ValueError (ok is FALSE)
float(s) ==
  LET cs == Strip([i \in 1..Len(s) |-> Transform(s[i])])
      signed == cs # <<>> /\ cs[1] \in {"+", "-"}
      sign == IF signed /\ cs[1] = "-" THEN -1 ELSE 1
      body == IF signed THEN Tail(cs) ELSE cs
      lower == [i \in 1..Len(body) |-> Lower(body[i])]
  IN IF lower \in {<<"i", "n", "f">>,
                   <<"i", "n", "f", "i", "n", "i", "t", "y">>}
       THEN [ok |-> TRUE, value |-> Infinity(sign)]
     ELSE IF lower = <<"n", "a", "n">> THEN [ok |-> TRUE, value |-> NaN(sign)]
     ELSE Literal(sign, body)

\* the double 3.6 of the source text
ThreePointSix == float(<<51, 46, 54>>).value

DefaultKmh == 50

\* 50 / 3.6
DefaultSpeed == Divide(Exact(DefaultKmh), ThreePointSix)

\* f.value / 3.6, or what max_v was before when float raised
Speed(f) == IF f.ok THEN Divide(f.value, ThreePointSix) ELSE DefaultSpeed

SpeedOf(s) == Speed(float(s))

\* max_v = 50 / 3.6; if "maxspeed" in w.tags: try: max_v = float(...) / 3.6
\* except Exception: pass
max_v(tags) ==
  IF "maxspeed" \notin DOMAIN tags THEN DefaultSpeed
  ELSE SpeedOf(tags["maxspeed"])

\* cars = {}; for i in w.nds: cars[i] = []
NewCars(nds) == [n \in Range(nds) |-> <<>>]

\* datadict.update(attr)
DictUpdate(d, attr) ==
  [k \in DOMAIN d \cup DOMAIN attr |-> IF k \in DOMAIN attr THEN attr[k] ELSE d[k]]

\* Graph.add_edges_from(zip(nlist[:-1], nlist[1:]), **attr)
RECURSIVE add_edges_from(_, _, _, _)
add_edges_from(G, nlist, i, attr) ==
  IF i >= Len(nlist) THEN G
  ELSE LET u == nlist[i]
           v == nlist[i + 1]
           e == {u, v}
           datadict == IF e \in DOMAIN G.edges THEN G.edges[e] ELSE EmptyDict
           nd == [n \in DOMAIN G.node \cup e |->
                    IF n \in DOMAIN G.node THEN G.node[n] ELSE EmptyDict]
       IN add_edges_from([node |-> nd,
                          edges |-> DictSet(G.edges, e, DictUpdate(datadict, attr))],
                         nlist, i + 1, attr)

\* Graph.add_path(nodes, **attr)
add_path(G, nlist, attr) == add_edges_from(G, nlist, 1, attr)

\* 'oneway' in w.tags and w.tags['oneway'] == 'yes'
IsOneway(tags) == "oneway" \in DOMAIN tags /\ tags["oneway"] = "yes"

\* the graph after the body of "for w in osm.ways.values()" added way w
WithWay(G, w, cars) ==
  LET attr == [id |-> w.id, max_v |-> max_v(w.tags), cars |-> cars]
      forward == add_path(G, w.nds, attr)
  IN IF IsOneway(w.tags) THEN forward
     ELSE add_path(forward, Reverse(w.nds), attr)

\* the filter at the head of the loop body: "skip", "KeyError" or "add"
Filter(w, roads) ==
  IF roads /\ "highway" \notin DOMAIN w.tags THEN "skip"
  ELSE IF "highway" \notin DOMAIN w.tags THEN "KeyError"
  ELSE IF w.tags["highway"] \in ExcludedHighway THEN "skip"
  ELSE "add"

\* one iteration of "for w in osm.ways.values()"
AddWay ==
  /\ pc = "build" /\ it <= Len(new_ways)
  /\ LET w == new_ways[it]
         f == Filter(w, only_roads)
     IN IF f = "KeyError" THEN Raise("KeyError: highway")
        ELSE /\ it' = it + 1
             /\ regs' = IF f = "add" THEN Append(regs, NewCars(w.nds)) ELSE regs
             /\ graph' = IF f = "add" THEN WithWay(graph, w, Len(regs) + 1)
                         ELSE graph
             /\ UNCHANGED <<pc, err, only_roads, open, section, heap, currElem,
                            nodes, ways, node_histogram, new_ways>>

\* the loops over graph.nodes() and graph.edges(): node attributes from
\* osm.nodes, then a 'length' on every edge
Finish ==
  /\ pc = "build" /\ it > Len(new_ways)
  /\ IF DOMAIN graph.node \subseteq DOMAIN nodes
       THEN /\ graph' =
                 [node |-> [n \in DOMAIN graph.node |->
                              DictSet(graph.node[n], "id", heap[nodes[n]].id)],
                  edges |-> [e \in DOMAIN graph.edges |->
                               DictSet(graph.edges[e], "length", "haversine")]]
            /\ pc' = "done"
            /\ UNCHANGED <<err, only_roads, open, section, heap, currElem,
                           nodes, ways, node_histogram, new_ways, it, regs>>
       ELSE Raise("KeyError: osm.nodes")

\* -------------------------------------------------------- specifications
Next ==
  \/ \E id \in NodeIds : StartNode(id)
  \/ \E id \in WayIds : StartWay(id)
  \/ StartOther
  \/ \E k \in TagKeys : \E v \in TagValues[k] : StartTag(k, v)
  \/ \E ref \in NodeIds : StartNd(ref)
  \/ EndElement
  \/ EndDocument
  \/ SplitWays
  \/ AddWay
  \/ Finish

Spec == Init /\ [][Next]_vars

\* documents whose ways are pairs of points on residential roads, with or
\* without a maxspeed
PairNd(ref) ==
  /\ open = "way"
  /\ Len(heap[currElem].nds) < PairLen
  /\ Nd(ref)

PairTag(k, v) ==
  /\ open = "way"
  /\ k \notin DOMAIN heap[currElem].tags
  /\ Tag(k, v)

NextPairs ==
  \/ \E id \in NodeIds : StartNode(id)
  \/ \E id \in WayIds : StartWay(id)
  \/ PairTag("highway", "residential")
  \/ \E v \in TagValues.maxspeed : PairTag("maxspeed", v)
  \/ \E ref \in NodeIds : PairNd(ref)
  \/ EndElement
  \/ EndDocument
  \/ SplitWays
  \/ AddWay
  \/ Finish

SpecPairs == Init /\ [][NextPairs]_vars

\* Way.split alone: a polyline of 2..MaxLen points and a histogram that counts
\* its own references and up to MaxExtra more per point
Polylines == UNION {[1..n -> NodeIds] : n \in 2..MaxLen}
Occurrences(nds, n) == Cardinality({i \in 1..Len(nds) : nds[i] = n})

InitSplit ==
  /\ pc = "split"
  /\ err = ""
  /\ only_roads \in BOOLEAN
  /\ open = "none"
  /\ section = "ways"
  /\ \E nds \in Polylines :
       heap = [i \in 1..Len(NodeOrder) |-> Node(NodeOrder[i])]
                \o <<[Way(WayOrder[1]) EXCEPT !.nds = nds]>>
  /\ currElem = Len(heap)
  /\ nodes = [n \in NodeIds |-> CHOOSE i \in 1..Len(NodeOrder) : NodeOrder[i] = n]
  /\ ways = <<Len(heap)>>
  /\ \E extra \in [NodeIds -> 0..MaxExtra] :
       node_histogram =
         [n \in NodeIds |-> Occurrences(heap[Len(heap)].nds, n) + extra[n]]
  /\ new_ways = <<>>
  /\ it = 1
  /\ graph = EmptyGraph
  /\ regs = <<>>

SpecSplit == InitSplit /\ [][SplitWays]_vars

\* ------------------------------------------------------------ properties
\* Graph.has_edge(u, v) and Graph.number_of_edges() of an undirected graph
has_edge(u, v) == {u, v} \in DOMAIN graph.edges
number_of_edges == Cardinality(DOMAIN graph.edges)

Pairs(w) == 1..(Len(w.nds) - 1)
Distinct(nds) == Cardinality(Range(nds)) = Len(nds)

\* the segments the loop of create_streetnetwork has visited and added
Added == {i \in 1..Len(new_ways) :
            i < it /\ Filter(new_ways[i], only_roads) = "add"}

\* the graph is finished and came from one segment of distinct points
OnlySegment(w) ==
  /\ pc = "done"
  /\ new_ways = <<w>>
  /\ Added = {1}
  /\ Distinct(w.nds)

\* C1: a oneway=yes segment of N points adds N-1 edges, each from a point to
\* its successor, and the graph has no edge from a point back to its
\* predecessor.
C1_OnewayOnlyForward ==
  \A i \in 1..Len(new_ways) :
    (OnlySegment(new_ways[i]) /\ IsOneway(new_ways[i].tags)) =>
      /\ number_of_edges = Len(new_ways[i].nds) - 1
      /\ \A k \in Pairs(new_ways[i]) :
           /\ has_edge(new_ways[i].nds[k], new_ways[i].nds[k + 1])
           /\ ~has_edge(new_ways[i].nds[k + 1], new_ways[i].nds[k])

\* C2: a segment of N points that is not oneway=yes adds 2*(N-1) edges, the
\* forward and the reverse edge of a pair being two edges with the way's id.
C2_TwoWayTwoEdgesPerPair ==
  \A i \in 1..Len(new_ways) :
    (OnlySegment(new_ways[i]) /\ ~IsOneway(new_ways[i].tags)) =>
      /\ number_of_edges = 2 * (Len(new_ways[i].nds) - 1)
      /\ \A e \in DOMAIN graph.edges : graph.edges[e]["id"] = new_ways[i].id

\* C3: a polyline with fewer than two point references never makes the
\* construction raise: the deletion inside the loop over the ways is silent.
C3_DegenerateWayDropped ==
  err # "RuntimeError: dictionary changed size during iteration"

\* the positions of a polyline between its first and its last
Interior(nds) == 2..(Len(nds) - 1)
Dividers(nds) == {i \in Interior(nds) : node_histogram[nds[i]] > 1}

SegmentsOf(way) ==
  SelectSeq(new_ways,
            LAMBDA s : \E i \in 0..Len(way.nds) : s.id = way.id \o "-" \o ToString(i))

RECURSIVE Join(_)
Join(segs) ==
  IF segs = <<>> THEN <<>>
  ELSE IF Len(segs) = 1 THEN segs[1].nds
  ELSE SubSeq(segs[1].nds, 1, Len(segs[1].nds) - 1) \o Join(Tail(segs))

\* C4: the segments Way.split returns for a way have no interior position
\* whose point has a count above 1, chain at their boundary points, join back
\* to the way's points, and are one more than the way's interior positions
\* whose point has a count above 1 (one segment for none, two for one).
C4_SplitAtEveryDivider ==
  pc = "build" =>
    \A r \in Range(ways) :
      LET way == heap[r]
          segs == SegmentsOf(way)
      IN /\ \A j \in 1..Len(segs) : Dividers(segs[j].nds) = {}
         /\ \A j \in 1..(Len(segs) - 1) :
              segs[j].nds[Len(segs[j].nds)] = segs[j + 1].nds[1]
         /\ Join(segs) = way.nds
         /\ Len(segs) = 1 + Cardinality(Dividers(way.nds))
         /\ \A j \in 1..Len(segs) :
              /\ segs[j].id = way.id \o "-" \o ToString(j - 1)
              /\ segs[j].tags = way.tags

\* a way of four points with one divider has been split in two
C4_Witness ==
  /\ pc = "build"
  /\ Len(new_ways) = 2
  /\ Len(heap[ways[1]].nds) = 4
  /\ Cardinality(Dividers(heap[ways[1]].nds)) = 1

\* the exclusion set of the road-class filter as documented
ExclusionSet ==
  {"cycleway", "footway", "pedestrian", "service", "sidewalk", "steps",
   "corridor", "bridleway", "bus_guideway", "raceway", "proposed",
   "construction"}

\* C5: with only_roads, a segment without a highway tag or with a highway
\* value of the exclusion set puts no edge into the graph.
C5_ExcludedClassesAddNothing ==
  (only_roads /\ pc \in {"build", "done"}) =>
    \A i \in 1..Len(new_ways) :
      ("highway" \notin DOMAIN new_ways[i].tags
         \/ new_ways[i].tags["highway"] \in ExclusionSet) =>
        \A e \in DOMAIN graph.edges : graph.edges[e]["id"] # new_ways[i].id

\* directed edges the added segments are to have: one per pair, two when two-way
EdgesPromised ==
  SeqSum([i \in 1..Len(new_ways) |->
            IF i \notin Added THEN 0
            ELSE IF IsOneway(new_ways[i].tags) THEN Len(new_ways[i].nds) - 1
            ELSE 2 * (Len(new_ways[i].nds) - 1)])

\* C6: every edge has an occupant registry of its own: two edges never hold
\* the same registry, and a registry exists per direction of every pair.
C6_RegistriesIndependent ==
  /\ \A e1, e2 \in DOMAIN graph.edges :
       e1 # e2 => graph.edges[e1]["cars"] # graph.edges[e2]["cars"]
  /\ (pc = "done" /\ \A i \in Added : Distinct(new_ways[i].nds)) =>
       Len(regs) = EdgesPromised

\* C7: a tag event inside an element of an unknown kind, which comes after
\* the points and polylines parsed so far have ended, changes the tags of
\* none of them and raises nothing.
C7_TagsOnlyOnOpenElement ==
  [][(pc = "parse" /\ open = "other" /\ heap # <<>>) =>
       /\ pc' = "parse"
       /\ Len(heap') = Len(heap)
       /\ \A i \in 1..Len(heap) : heap'[i].tags = heap[i].tags]_vars

\* C8: the edges of every segment that passed the filter carry that
\* segment's max speed: its maxspeed read as a number and divided by 3.6, or
\* 50 / 3.6 when the tag is absent or is no number.
C8_MaxSpeedFromTagOrDefault ==
  \A i \in Added : \A k \in Pairs(new_ways[i]) :
    /\ has_edge(new_ways[i].nds[k], new_ways[i].nds[k + 1])
    /\ graph.edges[{new_ways[i].nds[k], new_ways[i].nds[k + 1]}]["max_v"]
         = max_v(new_ways[i].tags)

\* C9: a reference to a point that the document does not hold never makes the
\* build fail.
C9_DanglingReferenceNotFatal ==
  err \notin {"KeyError: node_histogram", "KeyError: osm.nodes"}

\* C10: without only_roads the build raises nothing over a missing highway
\* tag and every segment of the document is in the finished graph.
C10_NoFilterWhenDisabled ==
  ~only_roads =>
    /\ err # "KeyError: highway"
    /\ pc = "done" =>
         \A i \in 1..Len(new_ways) : \A k \in Pairs(new_ways[i]) :
           has_edge(new_ways[i].nds[k], new_ways[i].nds[k + 1])
====
